---- MODULE Spec2Model ----
(***************************************************************************)
(* Model of the tutorial WebSocket server (src/src/server.mjs): the HTTP   *)
(* upgrade handshake, the 'readable' handler that decodes one masked frame *)
(* from the socket's buffered stream, unmask, and the frame encoder.       *)
(* Bytes are integers 0..255, buffers are sequences of bytes, and strings  *)
(* that are examined character by character are sequences of code points. *)
(***************************************************************************)
EXTENDS Integers, Sequences, FiniteSets, TLC

(* ---------------- program constants (src/src/server.mjs:7-13) ---------- *)
WEBSOCKET_MAGIC_STRING == "258EAFA5-E914-47DA-95CA-C5AB0DC85B11"
SEVEN_BITS_INTEGER_MARKER == 125
SIXTEEN_BITS_INTEGER_MARKER == 126
SIXTYFOUR_BITS_INTEGER_MARKER == 127
MASK_KEY_BYTES_LENGTH == 4
OPCODE_TEXT == 1
FIRST_BIT == 128

(* ---------------- bounds of the model ---------------------------------- *)
NumConns == 1        \* sockets the server is given
MaxFrames == 2       \* frames the clients send in total
MaxUnmaskLen == 5    \* longest payload handed to unmask on its own
MaxMsgChars == 127   \* longest message (in characters) handed to the encoder
MaxDecodes == 2      \* runs of the decoder on one buffered stream
MaxPairFrames == 1   \* frames the clients send when there is one more socket

(* ---------------- bytes and the JavaScript operators used -------------- *)
\* a | b
RECURSIVE BitOr(_, _)
BitOr(a, b) ==
  IF a = 0 THEN b
  ELSE IF b = 0 THEN a
  ELSE (IF a % 2 = 1 \/ b % 2 = 1 THEN 1 ELSE 0) + 2 * BitOr(a \div 2, b \div 2)

\* a ^ b
RECURSIVE BitXor(_, _)
BitXor(a, b) ==
  IF a = 0 THEN b
  ELSE IF b = 0 THEN a
  ELSE (((a % 2) + (b % 2)) % 2) + 2 * BitXor(a \div 2, b \div 2)

\* a & b
RECURSIVE BitAnd(_, _)
BitAnd(a, b) ==
  IF a = 0 \/ b = 0 THEN 0
  ELSE ((a % 2) * (b % 2)) + 2 * BitAnd(a \div 2, b \div 2)

Take(s, n) == SubSeq(s, 1, n)
Drop(s, n) == SubSeq(s, n + 1, Len(s))

(* ---------------- stream.Readable: socket.read(n) ---------------------- *)
\* The value null, and a Buffer holding bytes.
Null == [isNull |-> TRUE, bytes |-> <<>>]
Buf(b) == [isNull |-> FALSE, bytes |-> b]

\* How many bytes read(n) hands out of a buffer of `length` bytes: nothing
\* for n <= 0 or when fewer than n bytes are buffered, except that an ended
\* stream hands out whatever is left.
howMuchToRead(n, length, streamEnded) ==
  IF n <= 0 \/ length = 0 THEN 0
  ELSE IF n <= length THEN n
  ELSE IF streamEnded THEN length ELSE 0

\* socket.read(n) on buffered bytes b: the value returned and what stays
\* buffered.  It never waits: with too few bytes buffered it returns null.
SocketRead(b, n, streamEnded) ==
  LET k == howMuchToRead(n, Len(b), streamEnded)
  IN IF k = 0 THEN [ret |-> Null, rest |-> b]
     ELSE [ret |-> Buf(Take(b, k)), rest |-> Drop(b, k)]

(* ---------------- unmask (src/src/server.mjs:122-185) ------------------ *)
\* maskKey[j]; an index past the end reads undefined, which ^ treats as 0.
KeyAt(maskKey, j) == IF j + 1 <= Len(maskKey) THEN maskKey[j + 1] ELSE 0

unmaskByte_Or(encodedBuffer, maskKey, i) ==
  BitOr(encodedBuffer[i + 1], KeyAt(maskKey, i % MASK_KEY_BYTES_LENGTH))

unmaskByte_OffByOne(encodedBuffer, maskKey, i) ==
  BitXor(encodedBuffer[i + 1], KeyAt(maskKey, (i + 1) % MASK_KEY_BYTES_LENGTH))

\* encodedBuffer[i] ^ maskKey[i % MASK_KEY_BYTES_LENGTH], i counted from 0
unmaskByte(encodedBuffer, maskKey, i) ==
  BitXor(encodedBuffer[i + 1], KeyAt(maskKey, i % MASK_KEY_BYTES_LENGTH))

BufferFrom_NoCopy(encodedBuffer) ==
  [finalBuffer |-> encodedBuffer, encodedBuffer |-> encodedBuffer, shared |-> TRUE]

\* const finalBuffer = Buffer.from(encodedBuffer): a copy, not the same memory
BufferFrom(encodedBuffer) ==
  [finalBuffer |-> encodedBuffer, encodedBuffer |-> encodedBuffer, shared |-> FALSE]

\* finalBuffer[i] = v; a store is seen through every name of the same memory
StoreFinal(mem, i, v) ==
  IF mem.shared
  THEN [mem EXCEPT !.finalBuffer[i + 1] = v, !.encodedBuffer[i + 1] = v]
  ELSE [mem EXCEPT !.finalBuffer[i + 1] = v]

\* for (let i = 0; i < encodedBuffer.length; i++) finalBuffer[i] = ...
RECURSIVE unmaskLoop(_, _, _)
unmaskLoop(mem, maskKey, i) ==
  IF i < Len(mem.encodedBuffer)
  THEN unmaskLoop(StoreFinal(mem, i, unmaskByte(mem.encodedBuffer, maskKey, i)),
                  maskKey, i + 1)
  ELSE mem

\* The two buffers when unmask returns.
unmaskRun(encodedBuffer, maskKey) == unmaskLoop(BufferFrom(encodedBuffer), maskKey, 0)

\* unmask(encodedBuffer, maskKey) for two Buffers: the returned finalBuffer
unmask(encodedBuffer, maskKey) == unmaskRun(encodedBuffer, maskKey).finalBuffer

(* ---------------- UTF-8 (Buffer.from(string), buf.toString('utf8')) ---- *)
REPLACEMENT == 65533

\* Buffer.from(message): the UTF-8 bytes of a string given as code points
Utf8Char(cp) ==
  IF cp < 128 THEN <<cp>>
  ELSE IF cp < 2048 THEN <<192 + (cp \div 64), 128 + (cp % 64)>>
  ELSE IF cp < 65536
       THEN <<224 + (cp \div 4096), 128 + ((cp \div 64) % 64), 128 + (cp % 64)>>
  ELSE <<240 + (cp \div 262144), 128 + ((cp \div 4096) % 64),
         128 + ((cp \div 64) % 64), 128 + (cp % 64)>>

\* The characters' encodings in order (the string is halved at each step to
\* keep the evaluation shallow).
RECURSIVE Utf8Encode(_)
Utf8Encode(str) ==
  IF Len(str) = 0 THEN <<>>
  ELSE IF Len(str) = 1 THEN Utf8Char(str[1])
  ELSE LET h == Len(str) \div 2
       IN Utf8Encode(SubSeq(str, 1, h)) \o Utf8Encode(SubSeq(str, h + 1, Len(str)))

IsCont(b, i, lo, hi) == i <= Len(b) /\ b[i] >= lo /\ b[i] <= hi

\* decoded.toString('utf8'): ill-formed input becomes U+FFFD, never an error
RECURSIVE Utf8Decode(_, _)
Utf8Decode(b, i) ==
  IF i > Len(b) THEN <<>>
  ELSE LET x == b[i] IN
    IF x < 128 THEN <<x>> \o Utf8Decode(b, i + 1)
    ELSE IF x >= 194 /\ x <= 223 THEN
      IF IsCont(b, i + 1, 128, 191)
      THEN <<(x - 192) * 64 + (b[i + 1] - 128)>> \o Utf8Decode(b, i + 2)
      ELSE <<REPLACEMENT>> \o Utf8Decode(b, i + 1)
    ELSE IF x >= 224 /\ x <= 239 THEN
      LET lo == IF x = 224 THEN 160 ELSE 128
          hi == IF x = 237 THEN 159 ELSE 191
      IN IF ~IsCont(b, i + 1, lo, hi) THEN <<REPLACEMENT>> \o Utf8Decode(b, i + 1)
         ELSE IF ~IsCont(b, i + 2, 128, 191)
              THEN <<REPLACEMENT>> \o Utf8Decode(b, i + 2)
         ELSE <<(x - 224) * 4096 + (b[i + 1] - 128) * 64 + (b[i + 2] - 128)>>
              \o Utf8Decode(b, i + 3)
    ELSE IF x >= 240 /\ x <= 244 THEN
      LET lo == IF x = 240 THEN 144 ELSE 128
          hi == IF x = 244 THEN 143 ELSE 191
      IN IF ~IsCont(b, i + 1, lo, hi) THEN <<REPLACEMENT>> \o Utf8Decode(b, i + 1)
         ELSE IF ~IsCont(b, i + 2, 128, 191)
              THEN <<REPLACEMENT>> \o Utf8Decode(b, i + 2)
         ELSE IF ~IsCont(b, i + 3, 128, 191)
              THEN <<REPLACEMENT>> \o Utf8Decode(b, i + 3)
         ELSE <<(x - 240) * 262144 + (b[i + 1] - 128) * 4096
                + (b[i + 2] - 128) * 64 + (b[i + 3] - 128)>>
              \o Utf8Decode(b, i + 4)
    ELSE <<REPLACEMENT>> \o Utf8Decode(b, i + 1)

toStringUtf8(b) == Utf8Decode(b, 1)

(* ---------------- JSON.parse: does the text parse? --------------------- *)
\* Each J... operator takes the text and a position and returns the position
\* after what it recognised, or 0 when the text is not JSON there.
IsDigit(ch) == ch >= 48 /\ ch <= 57
IsHex(ch) == IsDigit(ch) \/ (ch >= 65 /\ ch <= 70) \/ (ch >= 97 /\ ch <= 102)
IsWs(ch) == ch \in {32, 9, 10, 13}
At(s, i) == IF i >= 1 /\ i <= Len(s) THEN s[i] ELSE -1

RECURSIVE SkipWs(_, _)
SkipWs(s, i) == IF IsWs(At(s, i)) THEN SkipWs(s, i + 1) ELSE i

RECURSIVE SkipDigits(_, _)
SkipDigits(s, i) == IF IsDigit(At(s, i)) THEN SkipDigits(s, i + 1) ELSE i

JLiteral(s, i, word) ==
  IF i + Len(word) - 1 <= Len(s) /\ SubSeq(s, i, i + Len(word) - 1) = word
  THEN i + Len(word) ELSE 0

JNumber(s, i) ==
  LET a == IF At(s, i) = 45 THEN i + 1 ELSE i
      b == IF At(s, a) = 48 THEN a + 1
           ELSE IF IsDigit(At(s, a)) THEN SkipDigits(s, a) ELSE 0
      c == IF b = 0 THEN 0
           ELSE IF At(s, b) = 46
                THEN (IF IsDigit(At(s, b + 1)) THEN SkipDigits(s, b + 1) ELSE 0)
           ELSE b
      d == IF c # 0 /\ At(s, c) \in {69, 101}
           THEN (IF At(s, c + 1) \in {43, 45} THEN c + 2 ELSE c + 1)
           ELSE 0
  IN IF c = 0 THEN 0
     ELSE IF d = 0 THEN c
     ELSE IF IsDigit(At(s, d)) THEN SkipDigits(s, d) ELSE 0

RECURSIVE JString(_, _)
JString(s, i) ==
  LET ch == At(s, i) IN
  IF ch = 34 THEN i + 1
  ELSE IF ch < 32 THEN 0
  ELSE IF ch = 92 THEN
    IF At(s, i + 1) \in {34, 92, 47, 98, 102, 110, 114, 116} THEN JString(s, i + 2)
    ELSE IF At(s, i + 1) = 117 /\ \A k \in 2..5 : IsHex(At(s, i + k))
         THEN JString(s, i + 6)
    ELSE 0
  ELSE JString(s, i + 1)

RECURSIVE JValue(_, _)
RECURSIVE JElements(_, _)
RECURSIVE JMembers(_, _)
JValue(s, i0) ==
  LET i == SkipWs(s, i0)
      ch == At(s, i)
  IN IF ch = 34 THEN JString(s, i + 1)
     ELSE IF ch = 91 THEN
       (IF At(s, SkipWs(s, i + 1)) = 93 THEN SkipWs(s, i + 1) + 1
        ELSE JElements(s, i + 1))
     ELSE IF ch = 123 THEN
       (IF At(s, SkipWs(s, i + 1)) = 125 THEN SkipWs(s, i + 1) + 1
        ELSE JMembers(s, i + 1))
     ELSE IF ch = 116 THEN JLiteral(s, i, <<116, 114, 117, 101>>)
     ELSE IF ch = 102 THEN JLiteral(s, i, <<102, 97, 108, 115, 101>>)
     ELSE IF ch = 110 THEN JLiteral(s, i, <<110, 117, 108, 108>>)
     ELSE IF ch = 45 \/ IsDigit(ch) THEN JNumber(s, i)
     ELSE 0

JElements(s, i) ==
  LET v == JValue(s, i)
      j == SkipWs(s, v)
  IN IF v = 0 THEN 0
     ELSE IF At(s, j) = 44 THEN JElements(s, j + 1)
     ELSE IF At(s, j) = 93 THEN j + 1
     ELSE 0

JMembers(s, i) ==
  LET j == SkipWs(s, i)
      k == IF At(s, j) = 34 THEN JString(s, j + 1) ELSE 0
      m == SkipWs(s, k)
      v == IF k # 0 /\ At(s, m) = 58 THEN JValue(s, m + 1) ELSE 0
      n == SkipWs(s, v)
  IN IF v = 0 THEN 0
     ELSE IF At(s, n) = 44 THEN JMembers(s, n + 1)
     ELSE IF At(s, n) = 125 THEN n + 1
     ELSE 0

\* JSON.parse(received) returns a value (TRUE) or throws a SyntaxError (FALSE)
JSONParses(received) ==
  LET v == JValue(received, 1)
  IN v # 0 /\ SkipWs(received, v) = Len(received) + 1

(* ---------------- the encoder (src/src/server.mjs:42-78) --------------- *)
\* What a call returned, or the Error it threw.
Returned(v) == [threw |-> FALSE, value |-> v, error |-> ""]
Threw(msg) == [threw |-> TRUE, value |-> <<>>, error |-> msg]

BufferSet_AtZero(target, buffer, offset) ==
  [i \in 1..Len(target) |-> IF i <= Len(buffer) THEN buffer[i] ELSE target[i]]

\* target.set(buffer, offset), for a buffer that fits (as it always does here:
\* totalLength is the sum of the lengths)
BufferSet(target, buffer, offset) ==
  [i \in 1..Len(target) |->
     IF i > offset /\ i <= offset + Len(buffer) THEN buffer[i - offset] ELSE target[i]]

RECURSIVE concatLoop(_, _, _)
concatLoop(target, bufferList, offset) ==
  IF bufferList = <<>> THEN target
  ELSE concatLoop(BufferSet(target, Head(bufferList), offset),
                  Tail(bufferList), offset + Len(Head(bufferList)))

\* concat(bufferList, totalLength); Buffer.allocUnsafe hands out memory whose
\* old contents (every byte `stale` here) show wherever nothing is stored.
concat(bufferList, totalLength, stale) ==
  concatLoop([i \in 1..totalLength |-> stale], bufferList, 0)

prepareMessage_OffByOne(message, stale) ==
  LET msg == Utf8Encode(message)
      messageSize == Len(msg)
  IN IF messageSize <= SEVEN_BITS_INTEGER_MARKER + 1
     THEN Returned(concat(<< <<BitOr(128, OPCODE_TEXT), messageSize>>, msg >>,
                          2 + messageSize, stale))
     ELSE Threw("Message too long. Length not supported")

prepareMessage_Masked(message, stale) ==
  LET msg == Utf8Encode(message)
      messageSize == Len(msg)
  IN IF messageSize <= SEVEN_BITS_INTEGER_MARKER
     THEN Returned(concat(<< <<BitOr(128, OPCODE_TEXT), FIRST_BIT + messageSize>>, msg >>,
                          2 + messageSize, stale))
     ELSE Threw("Message too long. Length not supported")

\* prepareMessage(message): the frame, or the Error thrown for a long message
prepareMessage(message, stale) ==
  LET msg == Utf8Encode(message)
      messageSize == Len(msg)
      firstByte == BitOr(128, OPCODE_TEXT)
  IN IF messageSize <= SEVEN_BITS_INTEGER_MARKER
     THEN LET dataFrameBuffer == <<firstByte, messageSize>>
              totalLength == Len(dataFrameBuffer) + messageSize
          IN Returned(concat(<<dataFrameBuffer, msg>>, totalLength, stale))
     ELSE Threw("Message too long. Length not supported")

\* sendMessage(msg, socket): what it appends to the socket's writes, and the
\* Error that escapes it when prepareMessage throws before socket.write.
sendMessage(msg, stale) ==
  LET data == prepareMessage(msg, stale)
  IN IF data.threw THEN [writes |-> <<>>, error |-> data.error]
     ELSE [writes |-> << [type |-> "frame", data |-> data.value] >>, error |-> ""]

(* ---------------- the handshake (src/src/server.mjs:193-221) ----------- *)
(* crypto.createHash('sha1'): SHA-1 (FIPS 180-4) over bytes, its 32-bit
   words kept as <<high 16 bits, low 16 bits>>. *)
\* Runs of ASCII characters and the code of the first of each.
AsciiRuns ==
  { <<"+", 43>>, <<"-", 45>>, <<"/", 47>>, <<"0123456789", 48>>, <<"=", 61>>,
    <<"ABCDEFGHIJKLMNOPQRSTUVWXYZ", 65>>, <<"abcdefghijklmnopqrstuvwxyz", 97>> }

PosIn(ch, str) == {k \in 1..Len(str) : SubSeq(str, k, k) = ch}

\* The code of a one-character string
CharCode(ch) ==
  LET run == CHOOSE r \in AsciiRuns : PosIn(ch, r[1]) # {}
  IN run[2] + (CHOOSE k \in PosIn(ch, run[1]) : TRUE) - 1

\* hash.update(string): the string's bytes (UTF-8; the strings are ASCII)
StrBytes(s) == [i \in 1..Len(s) |-> CharCode(SubSeq(s, i, i))]

Xor32(x, y) == <<BitXor(x[1], y[1]), BitXor(x[2], y[2])>>
And32(x, y) == <<BitAnd(x[1], y[1]), BitAnd(x[2], y[2])>>
Or32(x, y) == <<BitOr(x[1], y[1]), BitOr(x[2], y[2])>>
Not32(x) == <<65535 - x[1], 65535 - x[2]>>
Add32(x, y) ==
  LET lo == x[2] + y[2]
      hi == x[1] + y[1] + (lo \div 65536)
  IN <<hi % 65536, lo % 65536>>
Pow2(n) == 2 ^ n
\* rotate left by n, 0 < n < 16
RotlSmall(x, n) ==
  <<((x[1] * Pow2(n)) % 65536) + (x[2] \div Pow2(16 - n)),
    ((x[2] * Pow2(n)) % 65536) + (x[1] \div Pow2(16 - n))>>
Rotl32(x, n) ==
  IF n < 16 THEN RotlSmall(x, n) ELSE RotlSmall(<<x[2], x[1]>>, n - 16)

\* The message padded to whole 64-byte blocks: 0x80, zeros, and the length
\* in bits as a 64-bit big-endian integer.
Pad(m) ==
  LET len == Len(m)
      zeros == (119 - (len % 64)) % 64
      bits == len * 8
  IN m \o <<128>> \o [i \in 1..zeros |-> 0] \o <<0, 0, 0, 0>>
       \o <<(bits \div 16777216) % 256, (bits \div 65536) % 256,
            (bits \div 256) % 256, bits % 256>>

BlockWord(p, blk, t) ==
  LET o == (blk * 64) + (t * 4)
  IN <<(p[o + 1] * 256) + p[o + 2], (p[o + 3] * 256) + p[o + 4]>>

\* The message schedule grown to n words:
\* W[t] = ROTL1(W[t-3] ^ W[t-8] ^ W[t-14] ^ W[t-16])
RECURSIVE ScheduleTo(_, _)
ScheduleTo(w, n) ==
  IF Len(w) >= n THEN w
  ELSE LET t == Len(w) + 1
       IN ScheduleTo(Append(w,
            Rotl32(Xor32(Xor32(w[t - 3], w[t - 8]), Xor32(w[t - 14], w[t - 16])), 1)), n)

Schedule(w16) == ScheduleTo(ScheduleTo(ScheduleTo(ScheduleTo(w16, 32), 48), 64), 80)

ShaF(t, b, c, d) ==
  IF t < 20 THEN Or32(And32(b, c), And32(Not32(b), d))
  ELSE IF t < 40 THEN Xor32(Xor32(b, c), d)
  ELSE IF t < 60 THEN Or32(Or32(And32(b, c), And32(b, d)), And32(c, d))
  ELSE Xor32(Xor32(b, c), d)

ShaK(t) ==
  IF t < 20 THEN <<23170, 31129>>
  ELSE IF t < 40 THEN <<28377, 60321>>
  ELSE IF t < 60 THEN <<36635, 48348>>
  ELSE <<51810, 49622>>

\* The rounds from s.t up to round n (excluded) on the working variables
RECURSIVE RoundsTo(_, _, _)
RoundsTo(s, n, w) ==
  IF s.t >= n THEN s
  ELSE LET temp == Add32(Add32(Add32(Add32(Rotl32(s.a, 5), ShaF(s.t, s.b, s.c, s.d)),
                                     s.e), ShaK(s.t)), w[s.t + 1])
       IN RoundsTo([t |-> s.t + 1, a |-> temp, b |-> s.a, c |-> Rotl32(s.b, 30),
                    d |-> s.c, e |-> s.d], n, w)

Rounds(h, w) ==
  RoundsTo(RoundsTo(RoundsTo(RoundsTo(
    [t |-> 0, a |-> h[1], b |-> h[2], c |-> h[3], d |-> h[4], e |-> h[5]],
    20, w), 40, w), 60, w), 80, w)

\* The hash value after the blocks from blk on
RECURSIVE Blocks(_, _, _)
Blocks(p, blk, h) ==
  IF blk * 64 >= Len(p) THEN h
  ELSE LET w == Schedule([t \in 1..16 |-> BlockWord(p, blk, t - 1)])
           s == Rounds(h, w)
       IN Blocks(p, blk + 1,
                 <<Add32(h[1], s.a), Add32(h[2], s.b), Add32(h[3], s.c),
                   Add32(h[4], s.d), Add32(h[5], s.e)>>)

ShaInit ==
  <<<<26437, 8961>>, <<61389, 43913>>, <<39098, 56574>>, <<4146, 21622>>,
    <<50130, 57840>>>>

\* The 20 bytes of the SHA-1 digest
Sha1(m) ==
  LET h == Blocks(Pad(m), 0, ShaInit)
  IN [i \in 1..20 |->
        LET wd == h[((i - 1) \div 4) + 1]
            half == wd[(((i - 1) % 4) \div 2) + 1]
        IN IF (i % 2) = 1 THEN half \div 256 ELSE half % 256]

B64 == "ABCDEFGHIJKLMNOPQRSTUVWXYZabcdefghijklmnopqrstuvwxyz0123456789+/"
B64Char(k) == SubSeq(B64, k + 1, k + 1)

RECURSIVE Base64(_)
Base64(b) ==
  IF Len(b) = 0 THEN ""
  ELSE IF Len(b) = 1
  THEN B64Char(b[1] \div 4) \o B64Char((b[1] % 4) * 16) \o "=="
  ELSE IF Len(b) = 2
  THEN B64Char(b[1] \div 4) \o B64Char(((b[1] % 4) * 16) + (b[2] \div 16))
         \o B64Char((b[2] % 16) * 4) \o "="
  ELSE B64Char(b[1] \div 4) \o B64Char(((b[1] % 4) * 16) + (b[2] \div 16))
         \o B64Char(((b[2] % 16) * 4) + (b[3] \div 64)) \o B64Char(b[3] % 64)
         \o Base64(SubSeq(b, 4, Len(b)))

createSocketAccept_Swapped(id) ==
  Base64(Sha1(StrBytes(WEBSOCKET_MAGIC_STRING \o id)))

\* createSocketAccept(id):
\*   crypto.createHash('sha1').update(id + WEBSOCKET_MAGIC_STRING).digest('base64')
createSocketAccept(id) == Base64(Sha1(StrBytes(id \o WEBSOCKET_MAGIC_STRING)))

RECURSIVE JoinLines_LF(_)
JoinLines_LF(lines) ==
  IF lines = <<>> THEN "" ELSE (Head(lines) \o "\n") \o JoinLines_LF(Tail(lines))

\* headers.map((line) => line.concat('\r\n')).join('')
RECURSIVE JoinLines(_)
JoinLines(lines) ==
  IF lines = <<>> THEN "" ELSE (Head(lines) \o "\r\n") \o JoinLines(Tail(lines))

\* prepareHandshakeHeaders(id): the header block as one string
prepareHandshakeHeaders(id) ==
  LET acceptKey == createSocketAccept(id)
      headers == <<"HTTP/1.1 101 Switching Protocols",
                   "Upgrade: websocket",
                   "Connection: Upgrade",
                   "Sec-WebSocket-Accept: " \o acceptKey,
                   "">>
  IN JoinLines(headers)

(* ---------------- onSocketReadable (src/src/server.mjs:86-120) --------- *)
\* One run of the handler on the bytes buffered in the socket: the Error that
\* escaped it (none: ""), the line that threw, the bytes left buffered, each
\* socket.read(n) it made as <<n, bytes returned or -1 for null>>, and what
\* it sent.
Run(error, line, rest, reads, marker, parsed, decoded, writes) ==
  [ran |-> TRUE, error |-> error, line |-> line, rest |-> rest, reads |-> reads,
   marker |-> marker, parsed |-> parsed, decoded |-> decoded, writes |-> writes]

NoRun ==
  [ran |-> FALSE, error |-> "", line |-> 0, rest |-> <<>>, reads |-> <<>>,
   marker |-> -1, parsed |-> FALSE, decoded |-> <<>>, writes |-> <<>>]

\* What is kept of a run on socket c: everything but the bytes left, kept as
\* their count.
Logged(c, run) ==
  [conn |-> c, ran |-> run.ran, error |-> run.error, line |-> run.line, reads |-> run.reads,
   marker |-> run.marker, parsed |-> run.parsed, decoded |-> run.decoded,
   left |-> Len(run.rest), writes |-> run.writes]

Got(r) == IF r.ret.isNull THEN -1 ELSE Len(r.ret.bytes)

lengthSupported_Wide(lengthIndicatorInBits) ==
  lengthIndicatorInBits <= SIXTEEN_BITS_INTEGER_MARKER

\* if (lengthIndicatorInBits <= SEVEN_BITS_INTEGER_MARKER)
lengthSupported(lengthIndicatorInBits) ==
  lengthIndicatorInBits <= SEVEN_BITS_INTEGER_MARKER

readOpcode_Close(b, streamEnded) ==
  IF b # <<>> /\ (b[1] % 16) = 8
  THEN [ret |-> Buf(<<b[1]>>), rest |-> <<>>]
  ELSE SocketRead(b, 1, streamEnded)

\* socket.read(1): consume the FIN/opcode byte; its value is not looked at
readOpcode(b, streamEnded) == SocketRead(b, 1, streamEnded)

\* onSocketReadable(socket), the socket holding the bytes b
onSocketReadable(b, streamEnded) ==
  LET r1 == readOpcode(b, streamEnded)
      r2 == SocketRead(r1.rest, 1, streamEnded)
      hdr == <<<<1, Got(r1)>>, <<1, Got(r2)>>>>
  IN IF r2.ret.isNull
     \* const [markerAndPayloadLength] = null
     THEN Run("TypeError", 91, r2.rest, hdr, -1, FALSE, <<>>, <<>>)
     ELSE
     LET markerAndPayloadLength == r2.ret.bytes[1]
         lengthIndicatorInBits == markerAndPayloadLength - FIRST_BIT
     IN IF ~lengthSupported(lengthIndicatorInBits)
        THEN Run("MessageTooLong", 103, r2.rest, hdr, markerAndPayloadLength,
                 FALSE, <<>>, <<>>)
        ELSE
        LET messageLength == lengthIndicatorInBits
            r3 == SocketRead(r2.rest, MASK_KEY_BYTES_LENGTH, streamEnded)
            r4 == SocketRead(r3.rest, messageLength, streamEnded)
            reads == hdr \o <<<<MASK_KEY_BYTES_LENGTH, Got(r3)>>,
                              <<messageLength, Got(r4)>>>>
        IN IF r4.ret.isNull
           \* unmask: Buffer.from(null)
           THEN Run("TypeError", 123, r4.rest, reads, markerAndPayloadLength,
                    FALSE, <<>>, <<>>)
           ELSE IF r3.ret.isNull
           \* unmask: maskKey[i % 4] of null, on the first byte
           THEN Run("TypeError", 174, r4.rest, reads, markerAndPayloadLength,
                    FALSE, <<>>, <<>>)
           ELSE
           LET decoded == unmask(r4.ret.bytes, r3.ret.bytes)
               received == toStringUtf8(decoded)
           IN IF ~JSONParses(received)
              THEN Run("SyntaxError", 111, r4.rest, reads, markerAndPayloadLength,
                       FALSE, decoded, <<>>)
              \* `new Date.toISOString()`: Date.toISOString is undefined, so
              \* building the reply object throws before JSON.stringify and
              \* sendMessage are reached.
              ELSE Run("TypeError", 116, r4.rest, reads, markerAndPayloadLength,
                       TRUE, decoded, <<>>)

(* ---------------- what the clients send -------------------------------- *)
\* A client's frame: FIN/opcode byte, mask bit + length, mask key, and the
\* payload masked with the key.
ClientFrame(first, key, payload) ==
  <<first, FIRST_BIT + Len(payload)>> \o key \o unmask(payload, key)

KeyA == <<1, 2, 3, 4>>
KeyB == <<55, 250, 33, 61>>

Frames ==
  { ClientFrame(129, KeyA, <<49>>),     \* 1
    ClientFrame(129, KeyB, <<120>>),    \* x, not JSON
    <<129, 254, 0, 126>>,               \* length indicator 126
    <<129, 255>> }                      \* length indicator 127

Nonces == {"dGhlIHNhbXBsZSBub25jZQ=="}

\* The header block for each key the clients present
Handshakes == [k \in Nonces |-> prepareHandshakeHeaders(k)]

(* ---------------- the server and its sockets --------------------------- *)
VARIABLES
  state,      \* per socket: "AwaitingUpgrade", or "Open" once the 'readable'
              \* listener is registered, or "Closed" once the server closed it
  wire,       \* per socket: bytes the client sent that have not arrived yet
  buf,        \* per socket: bytes buffered in the socket, not yet read
  ended,      \* per socket: the client's end of the stream has arrived
  readable,   \* per socket: a 'readable' notification is due
  written,    \* per socket: what the server wrote, in order
  lastRun,    \* the latest run of onSocketReadable, and the socket it was for
  sent,       \* frames the clients have sent in total
  running,    \* the server process has not exited
  u,          \* unmask applied on its own
  enc,        \* the encoder applied on its own
  dec,        \* the decoder applied on its own to a buffered stream
  hs          \* the handshake functions applied on their own

vars == <<state, wire, buf, ended, readable, written, lastRun, sent, running, u, enc, dec, hs>>
serverVars == <<state, wire, buf, ended, readable, written, lastRun, sent, running>>

\* The sockets the server has been given.
Conns == DOMAIN state

\* The server listening, n sockets still to be upgraded.
ServerInitFor(n) ==
  /\ state = [c \in 1..n |-> "AwaitingUpgrade"]
  /\ wire = [c \in 1..n |-> <<>>]
  /\ buf = [c \in 1..n |-> <<>>]
  /\ ended = [c \in 1..n |-> FALSE]
  /\ readable = [c \in 1..n |-> FALSE]
  /\ written = [c \in 1..n |-> <<>>]
  /\ lastRun = Logged(0, NoRun)
  /\ sent = 0
  /\ running = TRUE

ServerInit == ServerInitFor(NumConns)

ProcessListeners_CommaOperator == {"unhandledRejection"}

\* ['uncaughtException', 'unhandledRejection'].forEach((event) =>
\*   process.on(event, ...)): the events the process has a listener for
ProcessListeners == {"uncaughtException", "unhandledRejection"}

\* An Error thrown out of an event listener is emitted as
\* 'uncaughtException': with a listener for it the process logs and goes on,
\* without one it exits.
SurvivesThrow == "uncaughtException" \in ProcessListeners

UIdle ==
  [phase |-> "idle", encoded |-> <<>>, maskKey |-> <<>>,
   final |-> <<>>, encodedAfter |-> <<>>, twice |-> <<>>]
EncIdle ==
  [phase |-> "idle", message |-> <<>>, stale |-> 0,
   data |-> Returned(<<>>), writes |-> <<>>, error |-> ""]

DecIdle ==
  [phase |-> "idle", frames |-> <<>>, stream |-> <<>>, ended |-> FALSE,
   rest |-> <<>>, runs |-> <<>>, altFirst |-> 0, altRun |-> Logged(0, NoRun)]

HsIdle == [phase |-> "idle", key |-> "", accept |-> "", headers |-> ""]

Init == ServerInit /\ u = UIdle /\ enc = EncIdle /\ dec = DecIdle /\ hs = HsIdle

OnSocketUpgrade_NoWrite(c, webClientSocketKey) ==
  /\ running
  /\ state[c] = "AwaitingUpgrade"
  /\ state' = [state EXCEPT ![c] = "Open"]
  /\ UNCHANGED <<wire, buf, ended, readable, written, lastRun, sent, running, u, enc, dec, hs>>

OnSocketUpgrade_AllSockets(c, webClientSocketKey) ==
  /\ running
  /\ state[c] = "AwaitingUpgrade"
  /\ LET headers == Handshakes[webClientSocketKey]
     IN written' = [d \in Conns |->
                      IF state[d] = "AwaitingUpgrade"
                      THEN Append(written[d], [type |-> "headers", data |-> headers])
                      ELSE written[d]]
  /\ state' = [d \in Conns |-> IF state[d] = "AwaitingUpgrade" THEN "Open" ELSE state[d]]
  /\ UNCHANGED <<wire, buf, ended, readable, lastRun, sent, running, u, enc, dec, hs>>

\* server.on('upgrade', onSocketUpgrade): write the handshake headers, then
\* register the 'readable' listener.
OnSocketUpgrade(c, webClientSocketKey) ==
  /\ running
  /\ state[c] = "AwaitingUpgrade"
  /\ LET headers == Handshakes[webClientSocketKey]
     IN written' = [written EXCEPT ![c] = Append(@, [type |-> "headers", data |-> headers])]
  /\ state' = [state EXCEPT ![c] = "Open"]
  /\ UNCHANGED <<wire, buf, ended, readable, lastRun, sent, running, u, enc, dec, hs>>

\* The client of an upgraded socket sends one more frame.
ClientSend(c, frame) ==
  /\ running
  /\ state[c] = "Open"
  /\ ~ended[c]
  /\ sent < MaxFrames
  /\ wire' = [wire EXCEPT ![c] = @ \o frame]
  /\ sent' = sent + 1
  /\ UNCHANGED <<state, buf, ended, readable, written, lastRun, running, u, enc, dec, hs>>

\* Some of the bytes in flight arrive in one chunk: they are buffered and a
\* 'readable' notification becomes due.
Deliver(c) ==
  /\ running
  /\ state[c] = "Open"
  /\ ~ended[c]
  /\ \E n \in 1..Len(wire[c]) :
       /\ buf' = [buf EXCEPT ![c] = @ \o Take(wire[c], n)]
       /\ wire' = [wire EXCEPT ![c] = Drop(@, n)]
  /\ readable' = [readable EXCEPT ![c] = TRUE]
  /\ UNCHANGED <<state, ended, written, lastRun, sent, running, u, enc, dec, hs>>

\* The client closes its side; the end of the stream is notified as readable.
ClientEnd(c) ==
  /\ running
  /\ state[c] = "Open"
  /\ ~ended[c]
  /\ wire[c] = <<>>
  /\ ended' = [ended EXCEPT ![c] = TRUE]
  /\ readable' = [readable EXCEPT ![c] = TRUE]
  /\ UNCHANGED <<state, wire, buf, written, lastRun, sent, running, u, enc, dec, hs>>

OnSocketReadable_CloseOnError(c) ==
  /\ running
  /\ state[c] = "Open"
  /\ readable[c]
  /\ LET run == onSocketReadable(buf[c], ended[c])
     IN /\ buf' = [buf EXCEPT ![c] = run.rest]
        /\ written' = [written EXCEPT ![c] = @ \o run.writes]
        /\ lastRun' = Logged(c, run)
        /\ running' = (run.error = "" \/ SurvivesThrow)
        /\ state' = [state EXCEPT ![c] = IF run.error # "" THEN "Closed" ELSE @]
  /\ readable' = [readable EXCEPT ![c] = FALSE]
  /\ UNCHANGED <<wire, ended, sent, u, enc, dec, hs>>

\* socket.on('readable', () => onSocketReadable(socket)): one run of the
\* handler.  An Error that escapes it is emitted on the process as
\* 'uncaughtException'; its listener logs it and nothing touches the socket.
OnSocketReadable(c) ==
  /\ running
  /\ state[c] = "Open"
  /\ readable[c]
  /\ LET run == onSocketReadable(buf[c], ended[c])
     IN /\ buf' = [buf EXCEPT ![c] = run.rest]
        /\ written' = [written EXCEPT ![c] = @ \o run.writes]
        /\ lastRun' = Logged(c, run)
        /\ running' = (run.error = "" \/ SurvivesThrow)
  /\ readable' = [readable EXCEPT ![c] = FALSE]
  /\ UNCHANGED <<state, wire, ended, sent, u, enc, dec, hs>>

Next ==
  \/ \E c \in Conns, k \in Nonces : OnSocketUpgrade(c, k)
  \/ \E c \in Conns, f \in Frames : ClientSend(c, f)
  \/ \E c \in Conns : Deliver(c)
  \/ \E c \in Conns : ClientEnd(c)
  \/ \E c \in Conns : OnSocketReadable(c)

Spec == Init /\ [][Next]_vars

(* ---------------- the server with one more socket --------------------- *)
\* A frame that decodes (payload 1) and the header of one that is too long.
PairFrames == {ClientFrame(129, KeyA, <<49>>), <<129, 255>>}

InitPair ==
  /\ ServerInitFor(NumConns + 1)
  /\ u = UIdle
  /\ enc = EncIdle
  /\ dec = DecIdle
  /\ hs = HsIdle

NextPair ==
  \/ \E c \in Conns, k \in Nonces : OnSocketUpgrade(c, k)
  \/ \E c \in Conns, f \in PairFrames : sent < MaxPairFrames /\ ClientSend(c, f)
  \/ \E c \in Conns : Deliver(c)
  \/ \E c \in Conns : ClientEnd(c)
  \/ \E c \in Conns : OnSocketReadable(c)

SpecPair == InitPair /\ [][NextPair]_vars

(* ---------------- unmask applied on its own ---------------------------- *)
ByteSample == {0, 123, 255}
KeySample == {KeyA, KeyB, <<0, 0, 0, 0>>, <<255, 255, 255, 255>>}
PayloadSample == UNION {[1..n -> ByteSample] : n \in 0..MaxUnmaskLen}

InitUnmask ==
  /\ ServerInit
  /\ enc = EncIdle
  /\ dec = DecIdle
  /\ hs = HsIdle
  /\ u \in {[phase |-> "input", encoded |-> p, maskKey |-> k,
             final |-> <<>>, encodedAfter |-> <<>>, twice |-> <<>>] :
            p \in PayloadSample, k \in KeySample}

\* unmask(encoded, maskKey): the buffer returned, and the argument afterwards
UnmaskOnce ==
  /\ u.phase = "input"
  /\ LET mem == unmaskRun(u.encoded, u.maskKey)
     IN u' = [u EXCEPT !.phase = "unmasked", !.final = mem.finalBuffer,
                       !.encodedAfter = mem.encodedBuffer]
  /\ UNCHANGED <<serverVars, enc, dec, hs>>

\* unmask(unmask(encoded, maskKey), maskKey)
UnmaskAgain ==
  /\ u.phase = "unmasked"
  /\ u' = [u EXCEPT !.phase = "twice", !.twice = unmask(u.final, u.maskKey)]
  /\ UNCHANGED <<serverVars, enc, dec, hs>>

NextUnmask == UnmaskOnce \/ UnmaskAgain

SpecUnmask == InitUnmask /\ [][NextUnmask]_vars

(* ---------------- the encoder applied on its own ----------------------- *)
\* Messages of one-, two- and three-byte characters (a, e-acute, euro sign)
\* in rotation, and plain ASCII ones.
MsgChars == <<97, 233, 8364>>
Rotating(n, off) == [i \in 1..n |-> MsgChars[((i + off) % 3) + 1]]
Ascii(n) == [i \in 1..n |-> 97 + (i % 2)]
MessageSample ==
  {Rotating(n, off) : n \in 0..MaxMsgChars, off \in 0..2}
    \cup {Ascii(n) : n \in 0..MaxMsgChars}
StaleSample == {0, 255}

InitEncode ==
  /\ ServerInit
  /\ u = UIdle
  /\ dec = DecIdle
  /\ hs = HsIdle
  /\ enc \in {[phase |-> "input", message |-> m, stale |-> g,
               data |-> Returned(<<>>), writes |-> <<>>, error |-> ""] :
              m \in MessageSample, g \in StaleSample}

\* prepareMessage(message)
PrepareMessage ==
  /\ enc.phase = "input"
  /\ enc' = [enc EXCEPT !.phase = "prepared",
                        !.data = prepareMessage(enc.message, enc.stale)]
  /\ UNCHANGED <<serverVars, u, dec, hs>>

\* sendMessage(message, socket) on a socket nothing was written to
SendMessage ==
  /\ enc.phase = "input"
  /\ LET r == sendMessage(enc.message, enc.stale)
     IN enc' = [enc EXCEPT !.phase = "sent", !.writes = r.writes, !.error = r.error]
  /\ UNCHANGED <<serverVars, u, dec, hs>>

NextEncode == PrepareMessage \/ SendMessage

SpecEncode == InitEncode /\ [][NextEncode]_vars

(* ---------------- the decoder applied on its own ----------------------- *)
\* Payloads: 1, x, [], 12, "<FF>", <FF>, the empty one and {"a":1}.
DecPayloads ==
  { <<49>>, <<120>>, <<91, 93>>, <<49, 50>>, <<34, 255, 34>>, <<255>>, <<>>,
    <<123, 34, 97, 34, 58, 49, 125>> }

\* A whole frame of 126 payload bytes, its length in the 16-bit field.
TooLongFrame == <<129, 254, 0, 126>> \o KeyA \o unmask(Ascii(126), KeyA)

DecFrames ==
  {ClientFrame(129, k, p) : k \in {KeyA, KeyB}, p \in DecPayloads}
    \cup {TooLongFrame}

\* Every value of the second header byte, before a mask key and one byte.
SecondByteFrames == {<<129, m>> \o KeyA \o <<48>> : m \in 0..255}

WholeFrame == ClientFrame(129, KeyA, <<49>>)

\* The frames whose first byte is varied.
VariantFrames ==
  { ClientFrame(129, KeyA, <<49>>), ClientFrame(129, KeyB, <<120>>),
    <<129, 255>>, <<129, 1>> \o KeyA \o <<48>> }

DecInput(frames, stream, streamEnded, altFirst) ==
  [phase |-> "input", frames |-> frames, stream |-> stream, ended |-> streamEnded,
   rest |-> stream, runs |-> <<>>, altFirst |-> altFirst,
   altRun |-> Logged(0, NoRun)]

\* The bytes buffered when 'readable' fires: one frame, two frames back to
\* back, a frame cut short, a whole frame before one cut short, and a frame
\* under every first byte.
DecInputs ==
  {DecInput(<<f>>, f, e, f[1]) :
     f \in DecFrames \cup SecondByteFrames, e \in BOOLEAN}
  \cup {DecInput(<<f, g>>, f \o g, e, f[1]) :
     f \in DecFrames, g \in DecFrames, e \in BOOLEAN}
  \cup UNION {{DecInput(<<f>>, Take(f, n), e, f[1]) : n \in 1..(Len(f) - 1)} :
     f \in DecFrames, e \in BOOLEAN}
  \cup UNION {{DecInput(<<WholeFrame, f>>, WholeFrame \o Take(f, n), e, 129) :
                n \in 1..(Len(f) - 1)} :
     f \in DecFrames, e \in BOOLEAN}
  \cup {DecInput(<<f>>, f, e, a) :
     f \in VariantFrames, e \in BOOLEAN, a \in 0..255}

InitDecode ==
  /\ ServerInit
  /\ u = UIdle
  /\ enc = EncIdle
  /\ dec \in DecInputs
  /\ hs = HsIdle

\* onSocketReadable(socket) once more on what the socket still buffers
DecodeFrame ==
  /\ dec.phase \in {"input", "decoding"}
  /\ Len(dec.runs) < MaxDecodes
  /\ LET run == onSocketReadable(dec.rest, dec.ended)
     IN dec' = [dec EXCEPT !.phase = "decoding", !.rest = run.rest,
                           !.runs = Append(@, Logged(0, run))]
  /\ UNCHANGED <<serverVars, u, enc, hs>>

\* onSocketReadable(socket) on the stream, and on the same stream under
\* another first byte
DecodeVariant ==
  /\ dec.phase = "input"
  /\ LET run == onSocketReadable(dec.stream, dec.ended)
         alt == onSocketReadable(<<dec.altFirst>> \o Tail(dec.stream), dec.ended)
     IN dec' = [dec EXCEPT !.phase = "compared", !.rest = run.rest,
                           !.runs = <<Logged(0, run)>>,
                           !.altRun = Logged(0, alt)]
  /\ UNCHANGED <<serverVars, u, enc, hs>>

NextDecode == DecodeFrame \/ DecodeVariant

SpecDecode == InitDecode /\ [][NextDecode]_vars

(* ---------------- the handshake functions applied on their own -------- *)
\* Values of the sec-websocket-key header: 16-byte nonces in base64, and
\* shorter strings on both sides of the one-block limit of the digest.
KeyHeads ==
  {"dGhlIHNhbXB", "x3JJHMbDL1E", "AAAAAAAAAAA", "+/+/+/+/+/+", "zzzzzzzzzzz",
   "0123456789a"}
KeyTails ==
  {"sZSBub25jZQ", "zLkh9GBhXDw", "AAAAAAAAAAA", "/+/+/+/+/+Q", "abcdefghijk",
   "9876543210g"}
KeySamples ==
  {h \o t \o "==" : h \in KeyHeads, t \in KeyTails}
    \cup {"", "a", "abc", "0123456789abcdefghi", "0123456789abcdefghij"}

InitHandshake ==
  /\ ServerInit
  /\ u = UIdle
  /\ enc = EncIdle
  /\ dec = DecIdle
  /\ hs \in {[phase |-> "input", key |-> k, accept |-> "", headers |-> ""] :
             k \in KeySamples}

\* createSocketAccept(id)
CreateSocketAccept ==
  /\ hs.phase = "input"
  /\ hs' = [hs EXCEPT !.phase = "accept", !.accept = createSocketAccept(hs.key)]
  /\ UNCHANGED <<serverVars, u, enc, dec>>

\* prepareHandshakeHeaders(id)
PrepareHandshakeHeaders ==
  /\ hs.phase = "input"
  /\ hs' = [hs EXCEPT !.phase = "headers",
                      !.headers = prepareHandshakeHeaders(hs.key)]
  /\ UNCHANGED <<serverVars, u, enc, dec>>

NextHandshake == CreateSocketAccept \/ PrepareHandshakeHeaders

SpecHandshake == InitHandshake /\ [][NextHandshake]_vars

(* ======================= the claims ==================================== *)
\* A write that is an unmasked single text frame with header [0x81, N], N the
\* length of what follows the header.
IsReplyFrame(w) ==
  /\ w.type = "frame"
  /\ Len(w.data) >= 2
  /\ w.data[1] = 129
  /\ w.data[2] = Len(w.data) - 2

HeadersAt(c) == {i \in 1..Len(written[c]) : written[c][i].type = "headers"}

\* C1: whenever a run of the handler on an open socket decoded a frame (the
\* unmasked payload parsed as JSON), that run wrote exactly one frame to the
\* socket, and that frame's header is [0x81, N] with N the reply's length.
C1_ReplyWritten ==
  lastRun.parsed =>
    /\ Len(lastRun.writes) = 1
    /\ IsReplyFrame(lastRun.writes[1])

\* C2: the handshake headers are written to a socket exactly once per upgrade,
\* and they are the first thing written: no run of the decoder and no frame
\* precedes them.
C2_HandshakeOnceFirst ==
  \A c \in Conns :
    /\ Cardinality(HeadersAt(c)) = (IF state[c] = "AwaitingUpgrade" THEN 0 ELSE 1)
    /\ ((lastRun.ran /\ lastRun.conn = c) \/ Len(written[c]) > 0) =>
         (Len(written[c]) > 0 /\ written[c][1].type = "headers")
    /\ state[c] = "AwaitingUpgrade" =>
         (written[c] = <<>> /\ buf[c] = <<>> /\ ~readable[c])

C2_Witness ==
  \E c \in Conns :
    lastRun.ran /\ lastRun.conn = c /\ lastRun.marker >= 0
      /\ Cardinality(HeadersAt(c)) = 1

\* C3: every socket starts in AwaitingUpgrade and leaves it only for Open, by
\* the step that writes the handshake; an Open socket stays Open as long as
\* the client has not closed the connection, whatever the handler's runs end
\* in, and a due 'readable' notification is cleared only by a run of the
\* handler on that socket.
C3_StaysOpen ==
  /\ \A c \in Conns : state[c] = "AwaitingUpgrade"
  /\ [][\A c \in Conns :
          /\ (state[c] = "AwaitingUpgrade" /\ state'[c] # "AwaitingUpgrade") =>
               (state'[c] = "Open" /\ Len(written'[c]) = Len(written[c]) + 1)
          /\ (state[c] = "Open" /\ ~ended'[c]) => state'[c] = "Open"
          /\ (state[c] = "Open" /\ readable[c] /\ ~readable'[c]) =>
               (lastRun'.ran /\ lastRun'.conn = c /\ state'[c] = "Open")]_vars

C3_Witness ==
  \E c \in Conns :
    /\ state[c] = "Open"
    /\ sent >= 2 /\ wire[c] = <<>> /\ buf[c] = <<>>
    /\ lastRun.conn = c /\ lastRun.parsed

\* C4: while the connection is open, every socket.read(n) of a run of the
\* handler hands over exactly the n bytes asked for (it waits for them), so no
\* run fails on a null read.
C4_ReadsBlock ==
  (lastRun.ran /\ ~ended[lastRun.conn]) =>
    /\ \A k \in 1..Len(lastRun.reads) : lastRun.reads[k][2] = lastRun.reads[k][1]
    /\ ~(lastRun.error = "TypeError" /\ lastRun.line \in {91, 123, 174})

\* C5: a run of the decoder that reads a second header byte with the mask bit
\* set and a length indicator of 126 or 127 throws the message-too-long Error
\* having made the two header reads only: no mask key and no payload read.
C5_TooLongBeforeMask ==
  (lastRun.ran /\ lastRun.marker \in {128 + 126, 128 + 127}) =>
    /\ lastRun.error = "MessageTooLong"
    /\ lastRun.reads = <<<<1, 1>>, <<1, 1>>>>
    /\ ~lastRun.parsed

C5_Witness ==
  /\ lastRun.marker \in {128 + 126, 128 + 127}
  /\ lastRun.left > 0

EncBytes == Utf8Encode(enc.message)

\* C6: prepareMessage returns a frame with a 2-byte header for a message of at
\* most 125 bytes and throws the message-too-long Error for one of 126 bytes
\* or more; sendMessage then writes nothing.
C6_LengthBoundary ==
  /\ enc.phase = "prepared" =>
       IF Len(EncBytes) <= 125
       THEN ~enc.data.threw /\ Len(enc.data.value) - Len(EncBytes) = 2
       ELSE enc.data.threw /\ enc.data.error = "Message too long. Length not supported"
  /\ enc.phase = "sent" =>
       IF Len(EncBytes) <= 125
       THEN Len(enc.writes) = 1 /\ enc.error = ""
       ELSE enc.writes = <<>> /\ enc.error = "Message too long. Length not supported"

C6_Witness ==
  enc.phase = "sent" /\ Len(EncBytes) = 126 /\ enc.writes = <<>>

FramesWritten ==
  {enc.writes[i] : i \in 1..Len(enc.writes)}
    \cup UNION {{written[c][i] : i \in (1..Len(written[c])) \ HeadersAt(c)} : c \in Conns}

\* C7: the second byte of every frame written to a socket is in 0..125: the
\* mask bit is clear and the length indicator is neither 126 nor 127.
C7_SecondByte ==
  \A w \in FramesWritten : w.type = "frame" /\ w.data[2] \in 0..125

C7_Witness ==
  enc.phase = "sent" /\ \E w \in FramesWritten : w.data[2] = 125

\* C8: unmask returns a buffer as long as its input whose byte i is the input's
\* byte i XOR maskKey[i mod 4], and its input is unchanged afterwards.
C8_UnmaskXor ==
  u.phase \in {"unmasked", "twice"} =>
    /\ Len(u.final) = Len(u.encoded)
    /\ \A i \in 0..(Len(u.encoded) - 1) :
         u.final[i + 1] = BitXor(u.encoded[i + 1], u.maskKey[(i % 4) + 1])
    /\ u.encodedAfter = u.encoded

C8_Witness ==
  u.phase = "unmasked" /\ Len(u.encoded) >= 5 /\ u.final[5] # u.encoded[5]

\* C9: unmasking twice with the same key gives back the payload.
C9_Involution ==
  u.phase = "twice" => u.twice = u.encoded

C9_Witness ==
  u.phase = "twice" /\ Len(u.encoded) >= 5 /\ u.final # u.encoded

\* C10: for a message of n <= 125 bytes the encoder returns n + 2 bytes: 0x81,
\* then n, then the message's bytes in order.
C10_FrameLayout ==
  (enc.phase = "prepared" /\ Len(EncBytes) <= 125) =>
    /\ ~enc.data.threw
    /\ Len(enc.data.value) = Len(EncBytes) + 2
    /\ enc.data.value[1] = 129
    /\ enc.data.value[2] = Len(EncBytes)
    /\ \A i \in 1..Len(EncBytes) : enc.data.value[i + 2] = EncBytes[i]

C10_Witness ==
  /\ enc.phase = "prepared"
  /\ Len(EncBytes) = 125
  /\ Len(enc.message) < 125
  /\ enc.stale = 255

\* The bytes are well-formed UTF-8: decoding and encoding gives them back.
ValidUtf8(b) == Utf8Encode(Utf8Decode(b, 1)) = b

\* C11: a run that unmasked a payload which is invalid UTF-8, or is not JSON
\* text, fails with the parse error: no value is produced and nothing is
\* written.
C11_MalformedPayload ==
  \A i \in 1..Len(dec.runs) :
    LET run == dec.runs[i]
    IN (run.decoded # <<>>
          /\ (~ValidUtf8(run.decoded) \/ ~JSONParses(toStringUtf8(run.decoded)))) =>
         (run.error = "SyntaxError" /\ ~run.parsed /\ run.writes = <<>>)

\* C12: the handshake response is the status line, the Upgrade, Connection
\* and Sec-WebSocket-Accept lines and an empty line, in that order, each ended
\* by CRLF with nothing after the last, the accept key being the one derived
\* from the request's key.
C12_HandshakeBlock ==
  hs.phase = "headers" =>
    /\ hs.headers =
         "HTTP/1.1 101 Switching Protocols\r\nUpgrade: websocket\r\nConnection: Upgrade\r\nSec-WebSocket-Accept: "
           \o createSocketAccept(hs.key) \o "\r\n\r\n"
    /\ Len("\r\n") = 2

C12_Witness ==
  /\ hs.phase = "headers"
  /\ hs.key = "dGhlIHNhbXBsZSBub25jZQ=="
  /\ Len(hs.headers) = 97 + 28 + 4

\* C13: the accept key is the base64 text of the SHA-1 digest of the key
\* followed by the GUID; for the key dGhlIHNhbXBsZSBub25jZQ== it is
\* s3pPLMBiTxaQ9kYGzzhZRbK+xOo=.
C13_AcceptKey ==
  hs.phase = "accept" =>
    /\ hs.accept =
         Base64(Sha1(StrBytes(hs.key \o "258EAFA5-E914-47DA-95CA-C5AB0DC85B11")))
    /\ Len(hs.accept) = 28
    /\ hs.key = "dGhlIHNhbXBsZSBub25jZQ==" => hs.accept = "s3pPLMBiTxaQ9kYGzzhZRbK+xOo="
    /\ hs.key = "x3JJHMbDL1EzLkh9GBhXDw==" => hs.accept = "HSmrc0sMlYUkAGmm5OPpG2HaGWk="

C13_Witness ==
  /\ hs.phase = "accept"
  /\ hs.key = "dGhlIHNhbXBsZSBub25jZQ=="
  /\ hs.accept = "s3pPLMBiTxaQ9kYGzzhZRbK+xOo="

\* A frame has been written to socket d.
FrameWrittenTo(d) == \E i \in 1..Len(written[d]) : written[d][i].type = "frame"

\* C14: a message received on one open socket (the latest run decoded it) has
\* been sent to every socket that is connected.
C14_Broadcast ==
  lastRun.parsed =>
    \A d \in Conns : state[d] = "Open" => FrameWrittenTo(d)

\* The step is a run of the 'readable' handler on socket c.
RunStepOn(c) == readable[c] /\ ~readable'[c]

\* The step is the upgrade of socket c.
UpgradeStepOn(c) == state[c] = "AwaitingUpgrade" /\ state'[c] = "Open"

\* C15: a run of the handler that ends in an Error writes nothing to any
\* socket and closes none, and the process keeps running (so upgrades are
\* still taken); a socket is only written to by its upgrade or by a run on it
\* that ended without an Error.
C15_ErrorAborts ==
  [][\A c \in Conns :
       /\ (RunStepOn(c) /\ lastRun'.error # "") =>
            (written' = written /\ state' = state /\ running')
       /\ written'[c] # written[c] =>
            (UpgradeStepOn(c) \/ (RunStepOn(c) /\ lastRun'.error = ""))]_vars

C15_Witness ==
  \E c \in Conns, d \in Conns :
    /\ lastRun.conn = c
    /\ lastRun.error = "MessageTooLong"
    /\ Len(written[c]) = 1
    /\ d # c
    /\ state[d] = "AwaitingUpgrade"
    /\ ENABLED (\E k \in Nonces : OnSocketUpgrade(d, k))

Consumed(i) ==
  (IF i = 1 THEN Len(dec.stream) ELSE dec.runs[i - 1].left) - dec.runs[i].left

\* C16: whenever a run goes past the length check and reads the mask key and
\* the payload, the payload length it asks for is in 0..125, whatever the
\* second header byte.
C16_LengthInRange ==
  \A i \in 1..Len(dec.runs) :
    Len(dec.runs[i].reads) >= 4 => dec.runs[i].reads[4][1] \in 0..125

\* C17: a run that decoded a frame took exactly that frame out of the
\* stream: one opcode byte, one length byte, four mask-key bytes and as many
\* payload bytes as the length byte announces.
C17_WholeFrame ==
  \A i \in 1..Len(dec.runs) :
    dec.runs[i].parsed =>
      /\ dec.runs[i].reads =
           <<<<1, 1>>, <<1, 1>>, <<4, 4>>,
             <<dec.runs[i].marker - 128, dec.runs[i].marker - 128>>>>
      /\ Consumed(i) = 6 + (dec.runs[i].marker - 128)

\* C18: after a run on the first of two buffered frames fails with the length
\* error or the parse error, the stream is at the start of the second frame,
\* and the next run decodes the second frame as it would on its own.
C18_ErrorLocal ==
  (/\ Len(dec.frames) = 2
   /\ dec.stream = dec.frames[1] \o dec.frames[2]
   /\ Len(dec.runs) >= 1
   /\ dec.runs[1].error \in {"MessageTooLong", "SyntaxError"}) =>
    /\ dec.runs[1].left = Len(dec.frames[2])
    /\ Len(dec.runs) >= 2 =>
         dec.runs[2] = Logged(0, onSocketReadable(dec.frames[2], dec.ended))

\* C20: two streams that differ only in their first byte give the same run:
\* the same reads, the same outcome, the same bytes left and the same writes.
C20_FirstByteIgnored ==
  dec.phase = "compared" => dec.altRun = dec.runs[1]

C20_Witness ==
  /\ dec.phase = "compared"
  /\ dec.stream[1] = 129
  /\ dec.altFirst = 136
  /\ dec.runs[1].parsed
  /\ dec.altRun.parsed

====
